---------------------------- MODULE Spec2Model ----------------------------
(***************************************************************************)
(* A model of budget_ai.py: the keyword classifier, the record store       *)
(* (a data frame backed by a CSV file), the analytics, the forecaster and  *)
(* the interactive menu loop that drives them.                             *)
(*                                                                         *)
(* Strings are sequences of one-character strings, so that the regular     *)
(* expression searches of the code are substring searches here.  Amounts   *)
(* are integers; a time stamp is an integer number of clock ticks.         *)
(***************************************************************************)
EXTENDS Integers, Sequences, FiniteSets, TLC

VARIABLES
    pc,      \* position of run_app: "menu", "done" (after break), "crashed"
    df,      \* BudgetAI.df: the in-memory data frame
    file,    \* the content of expenses.csv
    now,     \* the value datetime.now() returns next
    logs,    \* number of logging calls made so far (bounds the model)
    last,    \* the last menu choice, its inputs and what the operation returned
    text,    \* input of a stand-alone classify call
    label    \* result of the stand-alone classify call

vars == <<pc, df, file, now, logs, last, text, label>>

(***************************************************************************)
(* Bounds of the model.                                                    *)
(***************************************************************************)
MaxWords == 3        \* words in a description handed to classify alone
MaxLogs == 2         \* logging calls in one run of the menu loop
ExtraRecords == 0    \* records beyond the threshold in a forecaster input

(***************************************************************************)
(* Strings.                                                                *)
(***************************************************************************)
UpperAlpha ==
    <<"A","B","C","D","E","F","G","H","I","J","K","L","M",
      "N","O","P","Q","R","S","T","U","V","W","X","Y","Z">>
LowerAlpha ==
    <<"a","b","c","d","e","f","g","h","i","j","k","l","m",
      "n","o","p","q","r","s","t","u","v","w","x","y","z">>
Digits == <<"0","1","2","3","4","5","6","7","8","9">>

IsDigit(c) == \E i \in 1..10 : Digits[i] = c
DigitValue(c) == (CHOOSE i \in 1..10 : Digits[i] = c) - 1
IsSpace(c) == c = " "

\* str.lower() on one character
LowerChar(c) ==
    IF \E i \in 1..26 : UpperAlpha[i] = c
    THEN LowerAlpha[CHOOSE i \in 1..26 : UpperAlpha[i] = c]
    ELSE c

\* str.lower()
Lower(s) == [i \in 1..Len(s) |-> LowerChar(s[i])]

\* re.search(kw, s) for a literal keyword kw: kw occurs in s
Contains(s, kw) ==
    \E i \in 1..(Len(s) - Len(kw) + 1) : SubSeq(s, i, i + Len(kw) - 1) = kw

\* s starts with kw at position i
MatchAt(s, i, kw) ==
    /\ i + Len(kw) - 1 <= Len(s)
    /\ SubSeq(s, i, i + Len(kw) - 1) = kw

RECURSIVE JoinWords(_)
\* " ".join(ws)
JoinWords(ws) ==
    IF Len(ws) = 0 THEN <<>>
    ELSE IF Len(ws) = 1 THEN ws[1]
    ELSE ws[1] \o <<" ">> \o JoinWords(Tail(ws))

(***************************************************************************)
(* ExpenseClassifier.                                                      *)
(***************************************************************************)
FoodKeywords ==
    { <<"z","o","m","a","t","o">>, <<"s","w","i","g","g","y">>,
      <<"f","o","o","d">>, <<"p","i","z","z","a">>,
      <<"b","u","r","g","e","r">>, <<"c","o","f","f","e","e">>,
      <<"l","u","n","c","h">>, <<"d","i","n","n","e","r">>,
      <<"g","r","o","c","e","r","i","e","s">> }
TransportKeywords ==
    { <<"u","b","e","r">>, <<"o","l","a">>, <<"t","a","x","i">>,
      <<"b","u","s">>, <<"t","r","a","i","n">>, <<"m","e","t","r","o">>,
      <<"p","e","t","r","o","l">>, <<"f","u","e","l">> }
RentKeywords ==
    { <<"r","e","n","t">>, <<"r","o","o","m">>, <<"p","g">>,
      <<"h","o","s","t","e","l">>, <<"d","e","p","o","s","i","t">>,
      <<"l","e","a","s","e">> }

\* self.patterns, in the order the dictionary was written
patterns ==
    << [category |-> "Food",      keywords |-> FoodKeywords],
       [category |-> "Transport", keywords |-> TransportKeywords],
       [category |-> "Rent",      keywords |-> RentKeywords] >>

\* re.search(pattern, text) for an alternation of literal keywords
Search(keywords, t) == \E kw \in keywords : Contains(t, kw)

RECURSIVE FirstMatch(_, _)
\* the loop of classify from pattern i on
FirstMatch(t, i) ==
    IF i > Len(patterns) THEN "Others"
    ELSE IF Search(patterns[i].keywords, t) THEN patterns[i].category
    ELSE FirstMatch(t, i + 1)

\* the text classify searches in
ClassifyLowerNone(t) == t
ClassifyText(t) == Lower(t)

classify(t) == FirstMatch(ClassifyText(t), 1)

(***************************************************************************)
(* Numbers.  float(x) of the code is an integer here; float32 keeps 24     *)
(* bits of mantissa, so an integer of larger magnitude is rounded to the   *)
(* nearest multiple of its unit in the last place (ties to even).          *)
(***************************************************************************)
Float32MantissaBits == 24

RECURSIVE Ulp32(_)
\* the spacing of float32 values around the non-negative integer a
Ulp32(a) == IF a < 2 ^ Float32MantissaBits THEN 1 ELSE 2 * Ulp32(a \div 2)

\* round the non-negative integer a to a multiple of u, ties to the even multiple
RoundToMultiple(a, u) ==
    LET q == a \div u
        r == a % u
    IN  IF 2 * r < u THEN q * u
        ELSE IF 2 * r > u THEN (q + 1) * u
        ELSE IF q % 2 = 0 THEN q * u ELSE (q + 1) * u

\* the cast of a number to float32 (dtype 'float32', astype(float32))
Float32(a) ==
    IF a < 0 THEN 0 - RoundToMultiple(0 - a, Ulp32(0 - a))
    ELSE RoundToMultiple(a, Ulp32(a))

RECURSIVE DigitsValue(_)
\* the value of a non-empty string of decimal digits
DigitsValue(s) ==
    IF Len(s) = 0 THEN 0
    ELSE 10 * DigitsValue(SubSeq(s, 1, Len(s) - 1)) + DigitValue(s[Len(s)])

AllDigits(s) == Len(s) > 0 /\ \A i \in 1..Len(s) : IsDigit(s[i])

RECURSIVE Strip(_)
\* str.strip()
Strip(s) ==
    IF Len(s) = 0 THEN s
    ELSE IF IsSpace(s[1]) THEN Strip(Tail(s))
    ELSE IF IsSpace(s[Len(s)]) THEN Strip(SubSeq(s, 1, Len(s) - 1))
    ELSE s

\* float(s) for a string s: surrounding blanks are ignored, then an optional
\* sign and decimal digits; anything else the model feeds it raises ValueError.
\* (The inputs of the model hold no decimal point, exponent, "inf" or "nan".)
ParseFloat(s) ==
    LET t == Strip(s)
        signed == Len(t) > 0 /\ t[1] \in {"-", "+"}
        body == IF signed THEN Tail(t) ELSE t
    IN  IF AllDigits(body)
        THEN [ok |-> TRUE,
              value |-> IF signed /\ t[1] = "-" THEN 0 - DigitsValue(body)
                        ELSE DigitsValue(body)]
        ELSE [ok |-> FALSE, value |-> 0]

\* an argument that is already a float, and one that is still a string
FloatArg(v) == [isstr |-> FALSE, s |-> <<>>, v |-> v]
StrArg(s) == [isstr |-> TRUE, s |-> s, v |-> 0]

\* float(amount) on line 93
ToFloat(arg) == IF arg.isstr THEN ParseFloat(arg.s) ELSE [ok |-> TRUE, value |-> arg.v]

(***************************************************************************)
(* Time.  A time stamp counts clock ticks; TicksPerDay ticks make a day,   *)
(* so (a - b).days is the whole number of days in the difference.          *)
(***************************************************************************)
TicksPerDay == 2
DaysPerWeek == 7

NaN == 0 - 1

\* Timedelta.days of a non-negative difference of time stamps
TimedeltaDays(delta) == delta \div TicksPerDay
\* Series.dt.day_name(), as the index of the day in the week
DayName(d) == (d \div TicksPerDay) % DaysPerWeek
\* Series.dt.hour, as the tick within the day
HourOf(d) == d % TicksPerDay

(***************************************************************************)
(* The data frame and the CSV file.                                        *)
(* A frame is its column names in order, its rows (each a function from    *)
(* the column names to cells) and the dtype of its Amount column.  A file  *)
(* is its header and its rows of cells, or does not exist.                 *)
(***************************************************************************)
Range(s) == {s[i] : i \in 1..Len(s)}

BaseColumns == <<"Amount", "Category", "Date">>

\* pd.DataFrame(columns=["Amount", "Category", "Date"])
EmptyFrame == [columns |-> BaseColumns, rows |-> <<>>, dtype |-> "object"]

NoFile == [exists |-> FALSE, header |-> <<>>, rows |-> <<>>]

\* DataFrame.empty
IsEmpty(d) == Len(d.rows) = 0

\* the cell of column c in a row that may lack it (NaN where it is missing)
Cell(row, c) == IF c \in DOMAIN row THEN row[c] ELSE NaN

\* the columns of a after which those b adds are appended
UnionColumns(a, b) ==
    a \o SelectSeq(b, LAMBDA c : c \notin Range(a))

\* BudgetAI._load_data: read_csv with parse_dates=['Date'] and
\* dtype Amount float32; any exception gives the empty frame
LoadRow(row) == [c \in DOMAIN row |-> IF c = "Amount" THEN Float32(row[c]) ELSE row[c]]

_load_data(f) ==
    IF ~f.exists \/ "Date" \notin Range(f.header)
    THEN EmptyFrame
    ELSE [columns |-> f.header,
          rows |-> [i \in 1..Len(f.rows) |-> LoadRow(f.rows[i])],
          dtype |-> "float32"]

\* DataFrame.to_csv(self.file, index=False): the header and every row
ToCsvLastRowOnly(d) ==
    [exists |-> TRUE, header |-> d.columns, rows |-> <<d.rows[Len(d.rows)]>>]
to_csv(d) == [exists |-> TRUE, header |-> d.columns, rows |-> d.rows]

\* pd.concat([self.df, pd.DataFrame([new_entry])], ignore_index=True)
ConcatFront(d, entry) ==
    LET cols == UnionColumns(d.columns, BaseColumns)
        wide(row) == [c \in Range(cols) |-> Cell(row, c)]
    IN  [columns |-> cols,
         rows |-> <<wide(entry)>> \o [i \in 1..Len(d.rows) |-> wide(d.rows[i])],
         dtype |-> "float64"]
Concat(d, entry) ==
    LET cols == UnionColumns(d.columns, BaseColumns)
        wide(row) == [c \in Range(cols) |-> Cell(row, c)]
    IN  [columns |-> cols,
         rows |-> [i \in 1..Len(d.rows) |-> wide(d.rows[i])] \o <<wide(entry)>>,
         dtype |-> "float64"]

\* pd.to_numeric(..., downcast='float') casts to float32 only when no value
\* moves (the tolerance of the cast is below one unit of the model)
CanDowncast(d) == \A i \in 1..Len(d.rows) : Float32(d.rows[i].Amount) = d.rows[i].Amount

\* BudgetAI._optimize_dataframe
_optimize_dataframe(d) ==
    IF IsEmpty(d) THEN d
    ELSE [d EXCEPT !.dtype = IF CanDowncast(d) THEN "float32" ELSE "float64"]

(***************************************************************************)
(* BudgetAI.log_expense.  The result is the frame and the file the call    *)
(* leaves behind, what it returns, and whether it reached to_csv.          *)
(***************************************************************************)
\* line 97 assigns self.df before line 99 writes, and nothing puts it back
log_expense(d, f, amount, description, clock, writable) ==
    LET category == classify(description)
        parsed == ToFloat(amount)
        new_entry == [Amount |-> parsed.value, Category |-> category, Date |-> clock]
        grown == _optimize_dataframe(Concat(d, new_entry))
    IN  IF ~parsed.ok
        THEN [df |-> d, file |-> f, ret |-> FALSE, wrote |-> "none"]
        ELSE IF writable
        THEN [df |-> grown, file |-> to_csv(grown), ret |-> TRUE, wrote |-> "ok"]
        ELSE [df |-> grown, file |-> f, ret |-> FALSE, wrote |-> "failed"]

(***************************************************************************)
(* BudgetAI.voice_log_expense.                                             *)
(***************************************************************************)
UnitRs == <<"r","s">>
UnitRupees == <<"r","u","p","e","e","s">>
UnitSign == <<"rupee-sign">>     \* the one character U+20B9

RECURSIVE SkipDigits(_, _)
\* the first position from i on that holds no digit
SkipDigits(s, i) ==
    IF i <= Len(s) /\ IsDigit(s[i]) THEN SkipDigits(s, i + 1) ELSE i

RECURSIVE SkipSpaces(_, _)
\* the first position from i on that holds no blank
SkipSpaces(s, i) ==
    IF i <= Len(s) /\ IsSpace(s[i]) THEN SkipSpaces(s, i + 1) ELSE i

\* the end of an optional (rs|rupees|U+20B9) at position i
SkipUnit(s, i) ==
    IF MatchAt(s, i, UnitRs) THEN i + Len(UnitRs)
    ELSE IF MatchAt(s, i, UnitRupees) THEN i + Len(UnitRupees)
    ELSE IF MatchAt(s, i, UnitSign) THEN i + Len(UnitSign)
    ELSE i

\* re.search(r"(\d+)\s*(rs|rupees|U+20B9)?", spoken): group(1) of the first match
SearchAmount(s) ==
    IF \E i \in 1..Len(s) : IsDigit(s[i])
    THEN LET i == CHOOSE i \in 1..Len(s) :
                      IsDigit(s[i]) /\ \A j \in 1..(i - 1) : ~IsDigit(s[j])
         IN  [found |-> TRUE, group1 |-> SubSeq(s, i, SkipDigits(s, i) - 1)]
    ELSE [found |-> FALSE, group1 |-> <<>>]

RECURSIVE SubAmounts(_, _)
\* re.sub(r"\d+\s*(rs|rupees|U+20B9)?\s*", "", spoken) from position i on
SubAmounts(s, i) ==
    IF i > Len(s) THEN <<>>
    ELSE IF IsDigit(s[i])
    THEN SubAmounts(s, SkipSpaces(s, SkipUnit(s, SkipSpaces(s, SkipDigits(s, i)))))
    ELSE <<s[i]>> \o SubAmounts(s, i + 1)

\* what VoiceAssistant.listen does: the lower-cased transcription, None when
\* the recogniser fails, or an exception of the microphone
ListenText(s) == [kind |-> "text", s |-> Lower(s)]
ListenNone == [kind |-> "none", s |-> <<>>]
ListenRaise == [kind |-> "raise", s |-> <<>>]

\* voice_log_expense: every exception ends in speak("Error: ...") and False
voice_log_expense(d, f, heard, clock, writable) ==
    LET found == SearchAmount(heard.s)
        desc == Strip(SubAmounts(heard.s, 1))
    IN  IF heard.kind # "text" \/ Len(heard.s) = 0 \/ ~found.found
        THEN [df |-> d, file |-> f, ret |-> FALSE, wrote |-> "none",
              amount |-> <<>>, desc |-> <<>>, called |-> FALSE]
        ELSE log_expense(d, f, StrArg(found.group1), desc, clock, writable)
                 @@ [amount |-> found.group1, desc |-> desc, called |-> TRUE]

(***************************************************************************)
(* Analytics.                                                              *)
(***************************************************************************)
RECURSIVE SumSeq(_)
SumSeq(q) == IF Len(q) = 0 THEN 0 ELSE q[1] + SumSeq(Tail(q))

Column(d, c) == [i \in 1..Len(d.rows) |-> d.rows[i][c]]

\* round(Series.sum(), 2) of the Amount column: the sum of integers, which
\* rounding to two decimals leaves as it is
TotalSkipFirst(d) == SumSeq(Tail(Column(d, "Amount")))
Total(d) == SumSeq(Column(d, "Amount"))

\* the categories in the order of a categorical column (sorted)
CategoryOrder == <<"Food", "Others", "Rent", "Transport">>

Count(d, cat) == Cardinality({i \in 1..Len(d.rows) : d.rows[i].Category = cat})

\* Series.mode()[0]: the most frequent category, the first in order among equals
Mode(d) ==
    LET best == CHOOSE i \in 1..Len(CategoryOrder) :
                    /\ \A j \in 1..Len(CategoryOrder) :
                           Count(d, CategoryOrder[j]) <= Count(d, CategoryOrder[i])
                    /\ \A j \in 1..(i - 1) :
                           Count(d, CategoryOrder[j]) < Count(d, CategoryOrder[i])
    IN  CategoryOrder[best]

Out(kind, value, txt) == [kind |-> kind, value |-> value, text |-> txt]
NoOut == Out("none", 0, "")

\* BudgetAI.get_analysis (the monthly breakdown is left out of the result)
get_analysis(d) ==
    IF IsEmpty(d) THEN Out("error", 0, "No expenses logged yet")
    ELSE Out("analysis", Total(d), Mode(d))

\* BudgetAI.tips_db and the fallback of get_ai_tip
tips_db(cat) ==
    IF cat = "Food"
    THEN {"Meal prepping can save you 2000/month!", "Making coffee at home saves 150/week!"}
    ELSE IF cat = "Transport"
    THEN {"Cycling to college 2x/week = 800 saved!", "Carpool with 3 friends to split fuel costs!"}
    ELSE IF cat = "Rent"
    THEN {"Negotiate rent during summer vacations!", "Switch to LED bulbs to reduce electricity bills!"}
    ELSE {"Save 10% of every paycheck automatically!"}

\* BudgetAI.get_ai_tip: the tips random.choice may return
get_ai_tip(d) ==
    IF IsEmpty(d) THEN {Out("tip", 0, "Start by logging your first expense!")}
    ELSE {Out("tip", 0, t) : t \in tips_db(Mode(d))}

(***************************************************************************)
(* Forecaster: BudgetAI.predict_spending.                                  *)
(***************************************************************************)
PredictThreshold == 7
InsufficientMessage == "Need at least 7 entries for accurate predictions"

Min(S) == CHOOSE x \in S : \A y \in S : x <= y

\* line 159: self.df['Days'] = (Date - Date.min()).dt.days, a column added to
\* the frame when it is not there yet
WithDays(d) ==
    LET first == Min(Range(Column(d, "Date")))
        cols == UnionColumns(d.columns, <<"Days">>)
    IN  [d EXCEPT !.columns = cols,
                  !.rows = [i \in 1..Len(d.rows) |->
                               [c \in Range(cols) |->
                                   IF c = "Days"
                                   THEN TimedeltaDays(d.rows[i].Date - first)
                                   ELSE d.rows[i][c]]]]

\* LinearRegression().fit(Days, Amount): the slope is Sxy / Sxx; with Sxx = 0
\* (every record on one day) the least-squares solution of least norm has
\* slope 0.  Both sums are scaled by the number of records.
Sxy(x, y) ==
    Len(x) * SumSeq([i \in 1..Len(x) |-> x[i] * y[i]]) - SumSeq(x) * SumSeq(y)
Sxx(x) ==
    Len(x) * SumSeq([i \in 1..Len(x) |-> x[i] * x[i]]) - SumSeq(x) * SumSeq(x)

\* the sign test of line 167: model.coef_[0] > 0
SlopePositiveOrZero(x, y) == Sxx(x) = 0 \/ Sxy(x, y) >= 0
SlopePositive(x, y) == Sxx(x) > 0 /\ Sxy(x, y) > 0

\* the trend of line 167 (the predicted amount printed before it is left out)
Trend(x, y) == IF SlopePositive(x, y) THEN "Increasing" ELSE "Decreasing"

\* len(self.df) < 7
TooFewOffByOne(d) == Len(d.rows) < PredictThreshold - 1
TooFew(d) == Len(d.rows) < PredictThreshold

\* predict_spending: the frame it leaves behind and the string it returns
predict_spending(d) ==
    IF TooFew(d)
    THEN [df |-> d, out |-> Out("insufficient", 0, InsufficientMessage)]
    ELSE LET e == WithDays(d)
             x == Column(e, "Days")
             y == Column(e, "Amount")
         IN  [df |-> e, out |-> Out("prediction", 0, Trend(x, y))]

(***************************************************************************)
(* BudgetAI.show_insights.  The two columns of lines 195-196 are added      *)
(* when the plotting before them did not raise.                            *)
(***************************************************************************)
WithWeekdayHour(d) ==
    LET cols == UnionColumns(d.columns, <<"Weekday", "Hour">>)
    IN  [d EXCEPT !.columns = cols,
                  !.rows = [i \in 1..Len(d.rows) |->
                               [c \in Range(cols) |->
                                   IF c = "Weekday" THEN DayName(d.rows[i].Date)
                                   ELSE IF c = "Hour" THEN HourOf(d.rows[i].Date)
                                   ELSE d.rows[i][c]]]]

show_insights(d, plotted) ==
    IF IsEmpty(d) \/ ~plotted THEN d ELSE WithWeekdayHour(d)

(***************************************************************************)
(* Inputs of the menu loop.                                                *)
(***************************************************************************)
\* what the user types at "Amount: " and "Description: ": no number, a
\* negative amount, and an amount float32 cannot hold
TypedInputs ==
    { [amount |-> <<"a","b","c">>, desc |-> <<"p","i","z","z","a">>],
      [amount |-> <<" ","-","5">>, desc |-> <<"p","i","z","z","a">>],
      [amount |-> <<"1","6","7","7","7","2","1","7">>, desc |-> <<"u","b","e","r">>] }

\* what the recogniser hears: "50 rupees for Pizza", "50 rs", "pizza"
HeardTexts ==
    { <<"5","0"," ","r","u","p","e","e","s"," ","f","o","r"," ","P","i","z","z","a">>,
      <<"5","0"," ","r","s">>,
      <<"p","i","z","z","a">> }

ListenOutcomes == {ListenText(s) : s \in HeardTexts} \cup {ListenNone, ListenRaise}

\* expenses.csv as an earlier run left it: one record short of the threshold
SavedFrame ==
    [columns |-> BaseColumns,
     rows |-> [i \in 1..(PredictThreshold - 1) |->
                  [Amount |-> 100 * i,
                   Category |-> IF i % 2 = 0 THEN "Food" ELSE "Rent",
                   Date |-> i - 1]],
     dtype |-> "float32"]

InitialFiles == {NoFile, to_csv(SavedFrame)}

NoInput ==
    [choice |-> "0", amount |-> <<>>, desc |-> <<>>, heard |-> ListenNone,
     called |-> FALSE, ret |-> FALSE, wrote |-> "none", out |-> NoOut]

(***************************************************************************)
(* run_app.                                                                *)
(***************************************************************************)
\* BudgetAI.__init__: self.df = self._load_data()
Init ==
    /\ pc = "menu"
    /\ file \in InitialFiles
    /\ df = _load_data(file)
    /\ now = Len(file.rows)
    /\ logs = 0
    /\ last = NoInput
    /\ text = <<>>
    /\ label = "none"

\* the except clause of line 235
ExceptNothing(exc) == FALSE
ExceptValueError(exc) == exc = "ValueError"

\* where the loop is after an iteration in which exc was raised ("" for none)
AfterIteration(exc, caught) ==
    IF exc = "" \/ caught THEN "menu" ELSE "crashed"

\* choice "1": lines 229-236
TypedLog ==
    /\ pc = "menu"
    /\ logs < MaxLogs
    /\ \E typed \in TypedInputs, writable \in BOOLEAN :
        LET a == typed.amount
            s == typed.desc
            amount == ParseFloat(a)
            r == log_expense(df, file, FloatArg(amount.value), s, now, writable)
        IN  IF ~amount.ok
            THEN /\ pc' = AfterIteration("ValueError", ExceptValueError("ValueError"))
                 /\ last' = [NoInput EXCEPT !.choice = "1", !.amount = a]
                 /\ UNCHANGED <<df, file, now, logs>>
            ELSE /\ pc' = AfterIteration("", FALSE)
                 /\ df' = r.df
                 /\ file' = r.file
                 /\ now' = now + 1
                 /\ logs' = logs + 1
                 /\ last' = [NoInput EXCEPT !.choice = "1", !.amount = a, !.desc = s,
                                            !.called = TRUE, !.ret = r.ret,
                                            !.wrote = r.wrote]
    /\ UNCHANGED <<text, label>>

\* choice "2": lines 238-241
VoiceLog ==
    /\ pc = "menu"
    /\ logs < MaxLogs
    /\ \E heard \in ListenOutcomes, writable \in BOOLEAN :
        LET r == voice_log_expense(df, file, heard, now, writable)
        IN  /\ pc' = AfterIteration("", FALSE)
            /\ df' = r.df
            /\ file' = r.file
            /\ now' = IF r.called THEN now + 1 ELSE now
            /\ logs' = IF r.called THEN logs + 1 ELSE logs
            /\ last' = [NoInput EXCEPT !.choice = "2", !.heard = heard,
                                       !.amount = r.amount, !.desc = r.desc,
                                       !.called = r.called, !.ret = r.ret,
                                       !.wrote = r.wrote]
    /\ UNCHANGED <<text, label>>

\* choice "3": lines 243-252
ViewAnalysis ==
    /\ pc = "menu"
    /\ pc' = AfterIteration("", FALSE)
    /\ last' = [NoInput EXCEPT !.choice = "3", !.out = get_analysis(df)]
    /\ UNCHANGED <<df, file, now, logs, text, label>>

\* choice "4": lines 254-255
GetTip ==
    /\ pc = "menu"
    /\ pc' = AfterIteration("", FALSE)
    /\ \E tip \in get_ai_tip(df) : last' = [NoInput EXCEPT !.choice = "4", !.out = tip]
    /\ UNCHANGED <<df, file, now, logs, text, label>>

\* choice "5": lines 257-258
Predict ==
    /\ pc = "menu"
    /\ pc' = AfterIteration("", FALSE)
    /\ LET r == predict_spending(df)
       IN  /\ df' = r.df
           /\ last' = [NoInput EXCEPT !.choice = "5", !.out = r.out]
    /\ UNCHANGED <<file, now, logs, text, label>>

\* choice "6": lines 260-261
ShowInsights ==
    /\ pc = "menu"
    /\ pc' = AfterIteration("", FALSE)
    /\ \E plotted \in BOOLEAN : df' = show_insights(df, plotted)
    /\ last' = [NoInput EXCEPT !.choice = "6"]
    /\ UNCHANGED <<file, now, logs, text, label>>

\* choice "7": lines 263-265
Exit ==
    /\ pc = "menu"
    /\ pc' = "done"
    /\ last' = [NoInput EXCEPT !.choice = "7"]
    /\ UNCHANGED <<df, file, now, logs, text, label>>

\* any other choice: lines 267-268
InvalidChoice ==
    /\ pc = "menu"
    /\ pc' = AfterIteration("", FALSE)
    /\ last' = [NoInput EXCEPT !.choice = "other"]
    /\ UNCHANGED <<df, file, now, logs, text, label>>

Next ==
    \/ TypedLog
    \/ VoiceLog
    \/ ViewAnalysis
    \/ GetTip
    \/ Predict
    \/ ShowInsights
    \/ Exit
    \/ InvalidChoice

Spec == Init /\ [][Next]_vars

(***************************************************************************)
(* classify on its own: every description of at most MaxWords words of a   *)
(* small vocabulary, single blanks between them.                           *)
(***************************************************************************)
Pizza == <<"p","i","z","z","a">>
Uber == <<"u","b","e","r">>
Rent == <<"r","e","n","t">>

Vocabulary ==
    { Pizza, Uber, Rent, <<"b","o","o","k">>, <<"F","u","e","l">>,
      <<"P","i","z","z","a">> }

Descriptions ==
    { JoinWords(ws) : ws \in UNION { [1..n -> Vocabulary] : n \in 0..MaxWords } }

InitClassify ==
    /\ pc = "classify"
    /\ text \in Descriptions
    /\ label = "none"
    /\ file = NoFile
    /\ df = EmptyFrame
    /\ now = 0
    /\ logs = 0
    /\ last = NoInput

\* label = self.classifier.classify(text)
ClassifyStep ==
    /\ pc = "classify"
    /\ label = "none"
    /\ label' = classify(text)
    /\ UNCHANGED <<pc, df, file, now, logs, last, text>>

NextClassify == ClassifyStep

SpecClassify == InitClassify /\ [][NextClassify]_vars

(***************************************************************************)
(* predict_spending on its own: every frame of up to PredictThreshold +    *)
(* ExtraRecords records whose amounts move by one unit or stay from record *)
(* to record, each record made on the day of the one before it or on the   *)
(* next day.  The frame is grown a record at a time, then the forecaster   *)
(* is called once.                                                         *)
(***************************************************************************)
FirstAmount == 10

AmountSteps == {0 - 1, 0, 1}
DaySteps == {0, TicksPerDay}

FirstFrame ==
    [columns |-> BaseColumns,
     rows |-> << [Amount |-> FirstAmount, Category |-> "Others", Date |-> 0] >>,
     dtype |-> "float32"]

InitPredict ==
    /\ pc = "predict"
    /\ df = FirstFrame
    /\ file = NoFile
    /\ now = 0
    /\ logs = 0
    /\ last = NoInput
    /\ text = <<>>
    /\ label = "none"

\* one more record in the frame handed to the forecaster
GrowInput ==
    /\ pc = "predict"
    /\ last.choice = "0"
    /\ Len(df.rows) < PredictThreshold + ExtraRecords
    /\ \E da \in AmountSteps, dd \in DaySteps :
        LET prev == df.rows[Len(df.rows)]
        IN  df' = [df EXCEPT !.rows = Append(@,
                       [Amount |-> prev.Amount + da, Category |-> "Others",
                        Date |-> prev.Date + dd])]
    /\ UNCHANGED <<pc, file, now, logs, last, text, label>>

\* ai.predict_spending()
PredictStep ==
    /\ pc = "predict"
    /\ last.choice = "0"
    /\ LET r == predict_spending(df)
       IN  /\ df' = r.df
           /\ last' = [NoInput EXCEPT !.choice = "5", !.out = r.out]
    /\ UNCHANGED <<pc, file, now, logs, text, label>>

NextPredict ==
    \/ GrowInput
    \/ PredictStep

SpecPredict == InitPredict /\ [][NextPredict]_vars

(***************************************************************************)
(* The claims.                                                             *)
(***************************************************************************)
IsLog(l) == l.choice \in {"1", "2"}

\* the rows of two frames agree, in order, on amount, category and time stamp
SameRecords(a, b) ==
    /\ Len(a.rows) = Len(b.rows)
    /\ \A i \in 1..Len(a.rows) :
        /\ a.rows[i].Amount = b.rows[i].Amount
        /\ a.rows[i].Category = b.rows[i].Category
        /\ a.rows[i].Date = b.rows[i].Date

\* the rows of a are the first rows of b, with the same three fields
PrefixRecords(a, b) ==
    /\ Len(a.rows) <= Len(b.rows)
    /\ \A i \in 1..Len(a.rows) :
        /\ a.rows[i].Amount = b.rows[i].Amount
        /\ a.rows[i].Category = b.rows[i].Category
        /\ a.rows[i].Date = b.rows[i].Date

\* C1: a log_expense call that fails at the write leaves the in-memory
\* collection as it was before the call.
C1_FailedWriteRollsBack ==
    [][(IsLog(last') /\ last'.called /\ last'.wrote = "failed") => df' = df]_vars

\* the input of a logging call is invalid: the amount is no number or is
\* negative, or the description is empty
InvalidInput(l) ==
    \/ ~ParseFloat(l.amount).ok
    \/ ParseFloat(l.amount).value < 0
    \/ Len(Strip(l.desc)) = 0

\* C2: a logging call (typed or spoken) with an invalid amount or an empty
\* description reports failure and changes neither the in-memory collection
\* nor the file.
C2_InvalidInputRejected ==
    [][(IsLog(last') /\ InvalidInput(last'))
          => (~last'.ret /\ df' = df /\ file' = file)]_vars

\* C3 as stated: right after a log_expense that returned True, a reload of
\* the file gives the in-memory records, in order, with equal amount,
\* category and time stamp.
C3_ReloadGivesEqualRecords ==
    (IsLog(last) /\ last.ret) => SameRecords(_load_data(file), df)

\* C3 as amended: right after a log_expense that returned True the file holds
\* every in-memory record, and a reload gives them in order with equal
\* category and time stamp and with the amount cast to float32.
C3_ReloadGivesFloat32Records ==
    (IsLog(last) /\ last.ret) =>
        LET loaded == _load_data(file)
        IN  /\ file.exists
            /\ Len(file.rows) = Len(df.rows)
            /\ Len(loaded.rows) = Len(df.rows)
            /\ \A i \in 1..Len(df.rows) :
                /\ loaded.rows[i].Amount = Float32(df.rows[i].Amount)
                /\ loaded.rows[i].Category = df.rows[i].Category
                /\ loaded.rows[i].Date = df.rows[i].Date

\* a successful log into a store that holds an amount float32 cannot hold
\* beside one it can
C3_Witness ==
    /\ IsLog(last) /\ last.ret
    /\ Len(df.rows) >= 2
    /\ \E i \in 1..Len(df.rows) : Float32(df.rows[i].Amount) # df.rows[i].Amount
    /\ \E i \in 1..Len(df.rows) : Float32(df.rows[i].Amount) = df.rows[i].Amount

HasKeyword(t, keywords) == \E kw \in keywords : Contains(Lower(t), kw)

\* C4 as stated: a description containing "pizza" is Food, one containing
\* "uber" is Transport, one containing "rent" is Rent, and one containing no
\* keyword is Others.
C4_KeywordDecidesCategory ==
    label # "none" =>
        /\ Contains(Lower(text), Pizza) => label = "Food"
        /\ Contains(Lower(text), Uber) => label = "Transport"
        /\ Contains(Lower(text), Rent) => label = "Rent"
        /\ ~HasKeyword(text, FoodKeywords \cup TransportKeywords \cup RentKeywords)
              => label = "Others"

\* C4 as amended: "pizza" gives Food; "uber" gives Transport when no Food
\* keyword occurs; "rent" gives Rent when no Food and no Transport keyword
\* occurs; no keyword gives Others.
C4_FirstCategoryInOrderWins ==
    label # "none" =>
        /\ Contains(Lower(text), Pizza) => label = "Food"
        /\ (Contains(Lower(text), Uber) /\ ~HasKeyword(text, FoodKeywords))
              => label = "Transport"
        /\ (Contains(Lower(text), Rent) /\ ~HasKeyword(text, FoodKeywords)
                /\ ~HasKeyword(text, TransportKeywords))
              => label = "Rent"
        /\ ~HasKeyword(text, FoodKeywords \cup TransportKeywords \cup RentKeywords)
              => label = "Others"

\* a classified description that holds keywords of all three categories
C4_Witness ==
    /\ label # "none"
    /\ Contains(Lower(text), Pizza)
    /\ Contains(Lower(text), Uber)
    /\ Contains(Lower(text), Rent)

DayOffset(d, i) ==
    (d.rows[i].Date - Min({d.rows[j].Date : j \in 1..Len(d.rows)})) \div TicksPerDay

RECURSIVE PairSum(_, _, _, _)
\* the sum over the pairs j < i <= n, from pair (i, j) down, of the products
\* of the differences of day offset x and of amount y: its sign is the slope's
PairSum(x, y, i, j) ==
    IF i < 2 THEN 0
    ELSE IF j < 1 THEN PairSum(x, y, i - 1, i - 2)
    ELSE (x[i] - x[j]) * (y[i] - y[j]) + PairSum(x, y, i, j - 1)

LeastSquaresSlopePositive(d) ==
    LET n == Len(d.rows)
        first == Min({d.rows[j].Date : j \in 1..n})
        x == [i \in 1..n |-> (d.rows[i].Date - first) \div TicksPerDay]
        y == [i \in 1..n |-> d.rows[i].Amount]
    IN  PairSum(x, y, n, n - 1) > 0

AmountsStrictlyIncreasing(d) ==
    \A i \in 1..(Len(d.rows) - 1) : d.rows[i].Amount < d.rows[i + 1].Amount
AmountsStrictlyDecreasing(d) ==
    \A i \in 1..(Len(d.rows) - 1) : d.rows[i].Amount > d.rows[i + 1].Amount
AmountsConstant(d) ==
    \A i \in 1..(Len(d.rows) - 1) : d.rows[i].Amount = d.rows[i + 1].Amount
DaysIncreasing(d) ==
    \A i \in 1..(Len(d.rows) - 1) : DayOffset(d, i) < DayOffset(d, i + 1)
SameDay(d) ==
    \A i \in 1..Len(d.rows) : DayOffset(d, i) = 0

\* C6: over at least 7 records predict_spending returns a prediction whose
\* trend is Increasing exactly when the least-squares slope of amount over
\* day offset is positive: Increasing for strictly increasing amounts over
\* increasing days, Decreasing for strictly decreasing amounts, for constant
\* amounts, and for records that all fall on one day.
C6_TrendFollowsSlope ==
    (last.choice = "5" /\ Len(df.rows) >= 7) =>
        /\ last.out.kind = "prediction"
        /\ last.out.text \in {"Increasing", "Decreasing"}
        /\ last.out.text = "Increasing" <=> LeastSquaresSlopePositive(df)
        /\ (AmountsStrictlyIncreasing(df) /\ DaysIncreasing(df))
              => last.out.text = "Increasing"
        /\ AmountsStrictlyDecreasing(df) => last.out.text = "Decreasing"
        /\ AmountsConstant(df) => last.out.text = "Decreasing"
        /\ SameDay(df) => last.out.text = "Decreasing"

\* a forecast over strictly increasing amounts on strictly increasing days
C6_Witness ==
    /\ last.choice = "5"
    /\ Len(df.rows) >= 7
    /\ AmountsStrictlyIncreasing(df)
    /\ DaysIncreasing(df)
    /\ last.out.text = "Increasing"

RECURSIVE SumOfAmounts(_, _)
\* the sum of the amounts of the first n rows
SumOfAmounts(d, n) ==
    IF n = 0 THEN 0 ELSE SumOfAmounts(d, n - 1) + d.rows[n].Amount

C8_ReadOperationsArePure ==
    [][last'.choice \in {"3", "4", "5"} => (df' = df /\ file' = file)]_vars

\* C9: every operation leaves the records it found, in order and with their
\* amount, category and time stamp, as the first records of the store, and
\* adds at most one record.
C9_AppendOnly ==
    [][/\ PrefixRecords(df, df')
       /\ Len(df'.rows) <= Len(df.rows) + 1
       /\ ~IsLog(last') => Len(df'.rows) = Len(df.rows)]_vars

\* a second record logged by voice after the forecaster has run on the store
C9_Witness ==
    /\ last.choice = "2" /\ last.called
    /\ logs = 2
    /\ Len(df.rows) >= 8
    /\ "Days" \in Range(df.columns)

\* C10: the loop is at the menu after every operation, whatever it met, and
\* has ended only when the choice was 7.
C10_OnlyExitEndsTheLoop ==
    /\ pc \in {"menu", "done"}
    /\ pc = "done" <=> last.choice = "7"

\* back at the menu after a typed amount that float() refused
C10_Witness ==
    /\ pc = "menu"
    /\ last.choice = "1"
    /\ ~ParseFloat(last.amount).ok

=============================================================================
